---- MODULE Spec2Model ----
(***************************************************************************)
(* The tool-invocation pipeline of src/mcp-server-improved.js:             *)
(* validateInput -> cache lookup -> handler (withRetry) -> cache store.    *)
(* Node runs the request handler on one event loop: an invocation runs     *)
(* without interruption from one suspension point to the next.  The        *)
(* suspension points are the awaited external operation inside withRetry   *)
(* and the backoff timer of withRetry.                                     *)
(***************************************************************************)
EXTENDS Integers, Sequences, FiniteSets, TLC

VARIABLES
    cache,      \* the module-level Map: cache key -> [data, timestamp]
    now,        \* Date.now()
    openai,     \* this.openai: TRUE = a client, FALSE = null
    inv,        \* the invocations of the CallToolRequestSchema handler
    ticks,      \* number of Tick steps taken (bounds the clock)
    scrape      \* the scrapePage call of src/enhanced-hyperbrowser-scraper.js

vars == <<cache, now, openai, inv, ticks, scrape>>

(***************************** program constants ***************************)
CACHE_TTL == 300000
MAX_RETRIES == 3
RETRY_DELAY_BASE == 1000
CACHE_MAX_SIZE == 1000

(******************************* model bounds ******************************)
NInv == 2
MaxTicks == 1

Slots == 1..NInv

(******************************* JS values *********************************)
\* A JavaScript value: t is its kind, s its text (strings), n its number.
Str(x) == [t |-> "string", s |-> x, n |-> 0]
Num(k) == [t |-> "number", s |-> "", n |-> k]
Bool(b) == [t |-> "boolean", s |-> "", n |-> IF b THEN 1 ELSE 0]
Null == [t |-> "null", s |-> "", n |-> 0]
Undefined == [t |-> "undefined", s |-> "", n |-> 0]

\* typeof value
TypeOf(v) == IF v.t = "null" THEN "object" ELSE v.t

\* ToBoolean(value): what `cached && ...` tests
Truthy(v) ==
    CASE v.t = "string" -> v.s # ""
      [] v.t = "number" -> v.n # 0
      [] v.t = "boolean" -> v.n = 1
      [] v.t = "null" -> FALSE
      [] v.t = "undefined" -> FALSE
      [] OTHER -> TRUE

\* `${value}` inside a template literal
ToText(v) ==
    CASE v.t = "string" -> v.s
      [] v.t = "number" -> ToString(v.n)
      [] v.t = "boolean" -> (IF v.n = 1 THEN "true" ELSE "false")
      [] v.t = "null" -> "null"
      [] OTHER -> "undefined"

\* request.params.arguments: absent, or an object whose own properties are
\* kept in insertion order (a sequence of <<field, value>> pairs).
NoArgs == [present |-> FALSE, pairs |-> <<>>]
Obj(pairs) == [present |-> TRUE, pairs |-> pairs]

\* args[field]
Get(args, field) ==
    IF \E k \in 1..Len(args.pairs) : args.pairs[k][1] = field
    THEN args.pairs[CHOOSE k \in 1..Len(args.pairs) : args.pairs[k][1] = field][2]
    ELSE Undefined

RECURSIVE Join(_, _)
\* array.join(sep)
Join(seq, sep) ==
    IF Len(seq) = 0 THEN ""
    ELSE IF Len(seq) = 1 THEN seq[1]
    ELSE seq[1] \o sep \o Join(Tail(seq), sep)

\* JSON.stringify of one property value
JSONValue(v) ==
    CASE v.t = "string" -> "\"" \o v.s \o "\""
      [] v.t = "number" -> ToString(v.n)
      [] v.t = "boolean" -> (IF v.n = 1 THEN "true" ELSE "false")
      [] OTHER -> "null"

\* JSON.stringify(args) as it appears inside the template literal of the key
JSONStringify(args) ==
    IF ~args.present THEN "undefined"
    ELSE "{" \o Join([k \in 1..Len(args.pairs) |->
                        "\"" \o args.pairs[k][1] \o "\":" \o JSONValue(args.pairs[k][2])],
                     ",") \o "}"

\* const cacheKey = `${name}:${JSON.stringify(args)}`
CacheKey(name, args) == name \o ":" \o JSONStringify(args)

(***************************** the response cache **************************)
EmptyCache == [k \in {} |-> [data |-> Null, timestamp |-> 0]]

\* faulty variant: an entry whose age equals the TTL still counts as fresh
getCachedResponse_Inclusive(c, key, t) ==
    IF key \in DOMAIN c /\ t - c[key].timestamp <= CACHE_TTL
    THEN c[key].data
    ELSE Null

getCachedResponse(c, key, t) ==
    IF key \in DOMAIN c /\ t - c[key].timestamp < CACHE_TTL
    THEN c[key].data
    ELSE Null

\* faulty variant: an entry that exists is kept, only a new key is inserted
CacheSet_KeepFirst(c, key, data, t) ==
    [k \in DOMAIN c \cup {key} |->
        IF k \in DOMAIN c THEN c[k] ELSE [data |-> data, timestamp |-> t]]

\* cache.set(key, {data, timestamp: Date.now()})
CacheSet(c, key, data, t) ==
    [k \in DOMAIN c \cup {key} |->
        IF k = key THEN [data |-> data, timestamp |-> t] ELSE c[k]]

\* faulty variant: the sweep keeps the old entries and deletes the others
Sweep_KeepsOld(c, cutoff) ==
    [k \in {x \in DOMAIN c : c[x].timestamp < cutoff} |-> c[k]]

\* the sweep loop: delete every entry with timestamp < cutoff
Sweep(c, cutoff) ==
    [k \in {x \in DOMAIN c : ~(c[x].timestamp < cutoff)} |-> c[k]]

\* t1 is the Date.now() of the insertion, t2 the Date.now() of the cutoff
setCachedResponse(c, key, data, t1, t2) ==
    LET c1 == CacheSet(c, key, data, t1)
    IN  IF Cardinality(DOMAIN c1) > CACHE_MAX_SIZE
        THEN Sweep(c1, t2 - CACHE_TTL)
        ELSE c1

(****************************** input validation ***************************)
\* One field's rules.  0 and <<>> stand for a rule the schema does not set.
Rule(field, type, required, minLength, maxLength, min, max, enum) ==
    [field |-> field, type |-> type, required |-> required,
     minLength |-> minLength, maxLength |-> maxLength,
     min |-> min, max |-> max, enum |-> enum]

\* the schemas, each in its own field order
validationSchemas ==
    [image_generate |->
        << Rule("prompt", "string", TRUE, 1, 1000, 0, 0, <<>>),
           Rule("size", "string", FALSE, 0, 0, 0, 0, <<"256x256", "512x512", "1024x1024">>),
           Rule("n", "number", FALSE, 0, 0, 1, 4, <<>>) >>,
     analyze_code |->
        << Rule("code", "string", TRUE, 1, 0, 0, 0, <<>>),
           Rule("language", "string", FALSE, 0, 0, 0, 0, <<>>),
           Rule("analysis_type", "string", FALSE, 0, 0, 0, 0,
                <<"review", "explain", "optimize", "debug">>) >>,
     web_request |->
        << Rule("url", "string", TRUE, 0, 0, 0, 0, <<>>),
           Rule("method", "string", FALSE, 0, 0, 0, 0,
                <<"GET", "POST", "PUT", "DELETE", "PATCH">>) >>,
     ask_athena |->
        << Rule("prompt", "string", TRUE, 1, 2000, 0, 0, <<>>) >>]

\* What a call ends with: kind "ok", or a thrown error.  An McpError carries
\* its ErrorCode; any other error (TypeError, Error) has code "".
Ok == [kind |-> "ok", code |-> "", message |-> ""]
McpError(code, message) == [kind |-> "McpError", code |-> code, message |-> message]
JsError(message) == [kind |-> "Error", code |-> "", message |-> message]

\* faulty variant: a value equal to min is rejected
CheckField_MinInclusive(rules, value) ==
    IF rules.required /\ (value.t = "undefined" \/ value.t = "null")
    THEN McpError("InvalidParams", "Missing required field: " \o rules.field)
    ELSE IF value.t = "undefined" THEN Ok
    ELSE IF rules.type = "string" /\ TypeOf(value) # "string"
    THEN McpError("InvalidParams", "Field " \o rules.field \o " must be a string")
    ELSE IF rules.type = "number" /\ TypeOf(value) # "number"
    THEN McpError("InvalidParams", "Field " \o rules.field \o " must be a number")
    ELSE IF rules.minLength # 0 /\ value.t = "string" /\ Len(value.s) < rules.minLength
    THEN McpError("InvalidParams", "Field " \o rules.field \o " must be at least "
                    \o ToString(rules.minLength) \o " characters")
    ELSE IF rules.maxLength # 0 /\ value.t = "string" /\ Len(value.s) > rules.maxLength
    THEN McpError("InvalidParams", "Field " \o rules.field \o " must be at most "
                    \o ToString(rules.maxLength) \o " characters")
    ELSE IF rules.min # 0 /\ value.t = "number" /\ value.n <= rules.min
    THEN McpError("InvalidParams", "Field " \o rules.field \o " must be at least "
                    \o ToString(rules.min))
    ELSE IF rules.max # 0 /\ value.t = "number" /\ value.n > rules.max
    THEN McpError("InvalidParams", "Field " \o rules.field \o " must be at most "
                    \o ToString(rules.max))
    ELSE IF Len(rules.enum) # 0
            /\ ~(value.t = "string" /\ \E k \in 1..Len(rules.enum) : rules.enum[k] = value.s)
    THEN McpError("InvalidParams", "Field " \o rules.field \o " must be one of: "
                    \o Join(rules.enum, ", "))
    ELSE Ok

\* faulty variant: a string of exactly maxLength characters is rejected
CheckField_MaxLengthInclusive(rules, value) ==
    IF rules.required /\ (value.t = "undefined" \/ value.t = "null")
    THEN McpError("InvalidParams", "Missing required field: " \o rules.field)
    ELSE IF value.t = "undefined" THEN Ok
    ELSE IF rules.type = "string" /\ TypeOf(value) # "string"
    THEN McpError("InvalidParams", "Field " \o rules.field \o " must be a string")
    ELSE IF rules.type = "number" /\ TypeOf(value) # "number"
    THEN McpError("InvalidParams", "Field " \o rules.field \o " must be a number")
    ELSE IF rules.minLength # 0 /\ value.t = "string" /\ Len(value.s) < rules.minLength
    THEN McpError("InvalidParams", "Field " \o rules.field \o " must be at least "
                    \o ToString(rules.minLength) \o " characters")
    ELSE IF rules.maxLength # 0 /\ value.t = "string" /\ Len(value.s) >= rules.maxLength
    THEN McpError("InvalidParams", "Field " \o rules.field \o " must be at most "
                    \o ToString(rules.maxLength) \o " characters")
    ELSE IF rules.min # 0 /\ value.t = "number" /\ value.n < rules.min
    THEN McpError("InvalidParams", "Field " \o rules.field \o " must be at least "
                    \o ToString(rules.min))
    ELSE IF rules.max # 0 /\ value.t = "number" /\ value.n > rules.max
    THEN McpError("InvalidParams", "Field " \o rules.field \o " must be at most "
                    \o ToString(rules.max))
    ELSE IF Len(rules.enum) # 0
            /\ ~(value.t = "string" /\ \E k \in 1..Len(rules.enum) : rules.enum[k] = value.s)
    THEN McpError("InvalidParams", "Field " \o rules.field \o " must be one of: "
                    \o Join(rules.enum, ", "))
    ELSE Ok

\* faulty variant: the allowed values are listed without the space after the comma
CheckField_EnumJoin(rules, value) ==
    IF rules.required /\ (value.t = "undefined" \/ value.t = "null")
    THEN McpError("InvalidParams", "Missing required field: " \o rules.field)
    ELSE IF value.t = "undefined" THEN Ok
    ELSE IF rules.type = "string" /\ TypeOf(value) # "string"
    THEN McpError("InvalidParams", "Field " \o rules.field \o " must be a string")
    ELSE IF rules.type = "number" /\ TypeOf(value) # "number"
    THEN McpError("InvalidParams", "Field " \o rules.field \o " must be a number")
    ELSE IF rules.minLength # 0 /\ value.t = "string" /\ Len(value.s) < rules.minLength
    THEN McpError("InvalidParams", "Field " \o rules.field \o " must be at least "
                    \o ToString(rules.minLength) \o " characters")
    ELSE IF rules.maxLength # 0 /\ value.t = "string" /\ Len(value.s) > rules.maxLength
    THEN McpError("InvalidParams", "Field " \o rules.field \o " must be at most "
                    \o ToString(rules.maxLength) \o " characters")
    ELSE IF rules.min # 0 /\ value.t = "number" /\ value.n < rules.min
    THEN McpError("InvalidParams", "Field " \o rules.field \o " must be at least "
                    \o ToString(rules.min))
    ELSE IF rules.max # 0 /\ value.t = "number" /\ value.n > rules.max
    THEN McpError("InvalidParams", "Field " \o rules.field \o " must be at most "
                    \o ToString(rules.max))
    ELSE IF Len(rules.enum) # 0
            /\ ~(value.t = "string" /\ \E k \in 1..Len(rules.enum) : rules.enum[k] = value.s)
    THEN McpError("InvalidParams", "Field " \o rules.field \o " must be one of: "
                    \o Join(rules.enum, ","))
    ELSE Ok

\* The checks of one field, in the order of the code.  value.length of a
\* value that is not a string is undefined, which compares false.
CheckField(rules, value) ==
    IF rules.required /\ (value.t = "undefined" \/ value.t = "null")
    THEN McpError("InvalidParams", "Missing required field: " \o rules.field)
    ELSE IF value.t = "undefined" THEN Ok
    ELSE IF rules.type = "string" /\ TypeOf(value) # "string"
    THEN McpError("InvalidParams", "Field " \o rules.field \o " must be a string")
    ELSE IF rules.type = "number" /\ TypeOf(value) # "number"
    THEN McpError("InvalidParams", "Field " \o rules.field \o " must be a number")
    ELSE IF rules.minLength # 0 /\ value.t = "string" /\ Len(value.s) < rules.minLength
    THEN McpError("InvalidParams", "Field " \o rules.field \o " must be at least "
                    \o ToString(rules.minLength) \o " characters")
    ELSE IF rules.maxLength # 0 /\ value.t = "string" /\ Len(value.s) > rules.maxLength
    THEN McpError("InvalidParams", "Field " \o rules.field \o " must be at most "
                    \o ToString(rules.maxLength) \o " characters")
    ELSE IF rules.min # 0 /\ value.t = "number" /\ value.n < rules.min
    THEN McpError("InvalidParams", "Field " \o rules.field \o " must be at least "
                    \o ToString(rules.min))
    ELSE IF rules.max # 0 /\ value.t = "number" /\ value.n > rules.max
    THEN McpError("InvalidParams", "Field " \o rules.field \o " must be at most "
                    \o ToString(rules.max))
    ELSE IF Len(rules.enum) # 0
            /\ ~(value.t = "string" /\ \E k \in 1..Len(rules.enum) : rules.enum[k] = value.s)
    THEN McpError("InvalidParams", "Field " \o rules.field \o " must be one of: "
                    \o Join(rules.enum, ", "))
    ELSE Ok

\* faulty variant: every field is checked and the last error found is thrown
ValidateFields_LastError(schema, args) ==
    LET bad == {k \in 1..Len(schema) :
                  CheckField(schema[k], Get(args, schema[k].field)).kind # "ok"}
        last == CHOOSE k \in bad : \A m \in bad : m <= k
    IN  IF bad = {} THEN Ok ELSE CheckField(schema[last], Get(args, schema[last].field))

RECURSIVE ValidateFields(_, _)
\* the for loop over Object.entries(schema): the first failing field throws
ValidateFields(schema, args) ==
    IF Len(schema) = 0 THEN Ok
    ELSE LET r == CheckField(Head(schema), Get(args, Head(schema).field))
         IN  IF r.kind # "ok" THEN r ELSE ValidateFields(Tail(schema), args)

\* faulty variant: a tool without a schema is refused
validateInput_Strict(toolName, args) ==
    IF toolName \notin DOMAIN validationSchemas
    THEN McpError("InvalidParams", "No schema for tool: " \o toolName)
    ELSE IF ~args.present
    THEN JsError("Cannot read properties of undefined (reading '"
                   \o validationSchemas[toolName][1].field \o "')")
    ELSE ValidateFields(validationSchemas[toolName], args)

\* function validateInput(toolName, args)
validateInput(toolName, args) ==
    IF toolName \notin DOMAIN validationSchemas THEN Ok
    ELSE IF ~args.present
    THEN JsError("Cannot read properties of undefined (reading '"
                   \o validationSchemas[toolName][1].field \o "')")
    ELSE ValidateFields(validationSchemas[toolName], args)

(******************************** the tools ********************************)
\* the cases of the switch over the tool name
KnownTools ==
    {"ask_athena", "get_system_stats", "analyze_code", "generate_code",
     "image_generate", "web_request"}

\* the handlers that start with `if (!this.openai) throw new McpError(...)`
OpenAITools == {"ask_athena", "analyze_code", "generate_code", "image_generate"}

\* faulty variant: web_request added to the allow-list
IsCacheable_WebRequest(name) == name \in {"get_system_stats", "ask_athena", "web_request"}

\* ['get_system_stats', 'ask_athena'].includes(name)
IsCacheable(name) == name \in {"get_system_stats", "ask_athena"}

Call(name, args) == [name |-> name, args |-> args]

\* the tool calls a client sends
Calls ==
    { Call("ask_athena", Obj(<< <<"prompt", Str("hi")>> >>)),
      Call("ask_athena", Obj(<<>>)),
      Call("ask_athena", Obj(<< <<"prompt", Str("")>> >>)),
      Call("ask_athena", NoArgs),
      Call("get_system_stats", Obj(<<>>)),
      Call("analyze_code", Obj(<< <<"code", Str("x")>>, <<"analysis_type", Str("lint")>> >>)),
      Call("generate_code", Obj(<< <<"requirements", Str("r")>> >>)),
      Call("image_generate", Obj(<< <<"prompt", Str("cat")>>, <<"n", Num(5)>> >>)),
      Call("web_request", Obj(<< <<"url", Str("http://a")>>, <<"method", Str("GET")>> >>)),
      Call("web_request", Obj(<< <<"url", Num(7)>> >>)),
      Call("no_such_tool", Obj(<<>>)) }

\* what the awaited external operation of a handler resolves to
Results(name) ==
    CASE name = "ask_athena" -> {Str("answer one"), Str("answer two"), Str(""), Null}
      [] name = "get_system_stats" -> {Str("{cpu}")}
      [] name = "web_request" -> {Str("{status}")}
      [] OTHER -> {Str("text")}

\* what the awaited external operation rejects with
OpError(code, status, message) == [code |-> code, status |-> status, message |-> message]
Http500 == OpError("ERR_BAD_RESPONSE", 500, "Request failed with status code 500")
ENotFound == OpError("ENOTFOUND", 0, "getaddrinfo ENOTFOUND")
Http401 == OpError("", 401, "401 Unauthorized")
Http403 == OpError("", 403, "403 Forbidden")
OpErrors == {Http500, ENotFound, Http401, Http403}

(******************************* withRetry *********************************)
\* faulty variant: 403 is retried
NonRetryable_No403(error) == error.code = "ENOTFOUND" \/ error.status = 401

\* faulty variant: every error is retried
NonRetryable_Never(error) == FALSE

\* error.code === 'ENOTFOUND' || error.status === 401 || error.status === 403
NonRetryable(error) ==
    error.code = "ENOTFOUND" \/ error.status = 401 \/ error.status = 403

\* faulty variant: the last-attempt test is off by one
IsLastAttempt_OffByOne(i) == i = MAX_RETRIES

\* i === maxRetries - 1
IsLastAttempt(i) == i = MAX_RETRIES - 1

RECURSIVE Pow2(_)
\* Math.pow(2, i)
Pow2(i) == IF i = 0 THEN 1 ELSE 2 * Pow2(i - 1)

\* faulty variant: the exponent is off by one
BackoffDelay_OffByOne(i) == RETRY_DELAY_BASE * Pow2(i + 1)

\* const delay = RETRY_DELAY_BASE * Math.pow(2, i)
BackoffDelay(i) == RETRY_DELAY_BASE * Pow2(i)

(************************** the tool-call handler **************************)
\* the response of a call that returned
Success(text, cached) == [kind |-> "ok", code |-> "", text |-> text, cached |-> cached]
\* the response of a call that threw
Failure(code, message) ==
    [kind |-> "error", code |-> code, text |-> Str(message), cached |-> FALSE]
NoResponse == [kind |-> "none", code |-> "", text |-> Null, cached |-> FALSE]

\* faulty variant: every error, an McpError too, is wrapped as InternalError
Catch_WrapsAll(error) ==
    Failure("InternalError", "Tool execution failed: " \o error.message)

\* the catch block: an McpError is rethrown, any other error is wrapped
Catch(error) ==
    IF error.kind = "McpError"
    THEN Failure(error.code, error.message)
    ELSE Failure("InternalError", "Tool execution failed: " \o error.message)

NoError == OpError("", 0, "")
NoEntry == [present |-> FALSE, data |-> Null, timestamp |-> 0]

\* no scrapePage call has been made
NoScrape ==
    [pc |-> "Idle", retryCount |-> Undefined, maxRetries |-> Undefined,
     rateLimit |-> 0, retryAttempts |-> 0, given |-> Undefined,
     attempts |-> 0, waits |-> <<>>]

\* An invocation that has not been received yet.  Besides the handler's
\* locals (name, args, key, attempt, wakeAt, result) the record counts the
\* calls the invocation has made and keeps what it observed.
IdleInv ==
    [pc |-> "Idle", name |-> "", args |-> NoArgs, key |-> "",
     attempt |-> 0, wakeAt |-> 0, result |-> Null, response |-> NoResponse,
     validations |-> 0, lookups |-> 0, handlerCalls |-> 0, retryCalls |-> 0,
     opCalls |-> 0, stores |-> 0, writes |-> 0,
     found |-> NoEntry, foundAge |-> 0, lastErr |-> NoError, waits |-> <<>>,
     failedAt |-> 0, wokeEarly |-> FALSE]

Init ==
    /\ cache = EmptyCache
    /\ now = 0
    /\ openai \in BOOLEAN
    /\ inv = [i \in Slots |-> IdleInv]
    /\ ticks = 0
    /\ scrape = NoScrape

\* the invocation ends by throwing `error` out of the try block
Throw(r, error) == [r EXCEPT !.pc = "DoneError", !.response = Catch(error)]

\* faulty variant: the default case throws a plain Error
UnknownTool_PlainError(r) == Throw(r, JsError("Unknown tool: " \o r.name))

\* the default case of the switch
UnknownTool(r) == Throw(r, McpError("MethodNotFound", "Unknown tool: " \o r.name))

\* The synchronous part of the handler up to its first suspension:
\* validation, cache lookup, dispatch, the handler's pre-checks and the
\* first call of the operation by withRetry.
Dispatch(r) ==
    IF r.name \notin KnownTools
    THEN UnknownTool(r)
    ELSE LET h == [r EXCEPT !.handlerCalls = 1]
         IN  IF ~r.args.present
             THEN Throw(h, JsError("Cannot destructure property of 'args' as it is undefined."))
             ELSE IF r.name \in OpenAITools /\ ~openai
             THEN Throw(h, McpError("InternalError",
                        "OpenAI client not initialized. Please check your API key."))
             ELSE [h EXCEPT !.pc = "Executing", !.retryCalls = 1,
                            !.attempt = 0, !.opCalls = 1]

\* faulty variant: a lookup that finds the same key being computed by an
\* invocation in flight does not start the handler a second time
Lookup_SingleFlight(r) ==
    LET key == CacheKey(r.name, r.args)
        cached == getCachedResponse(cache, key, now)
        looked == [r EXCEPT !.key = key, !.lookups = 1,
                     !.found = IF key \in DOMAIN cache
                               THEN [present |-> TRUE, data |-> cache[key].data,
                                     timestamp |-> cache[key].timestamp]
                               ELSE NoEntry,
                     !.foundAge = IF key \in DOMAIN cache
                                  THEN now - cache[key].timestamp ELSE 0]
    IN  IF Truthy(cached) /\ IsCacheable(r.name)
        THEN [looked EXCEPT !.pc = "Done",
                !.response = Success(Str("[CACHED] " \o ToText(cached)), TRUE)]
        ELSE IF \E j \in Slots : inv[j].pc \in {"Executing", "Backoff"} /\ inv[j].key = key
        THEN Throw(looked, JsError("in flight"))
        ELSE Dispatch(looked)

\* faulty variant: the hit test is `cached !== null`
Lookup_NotNullTest(r) ==
    LET key == CacheKey(r.name, r.args)
        cached == getCachedResponse(cache, key, now)
        looked == [r EXCEPT !.key = key, !.lookups = 1,
                     !.found = IF key \in DOMAIN cache
                               THEN [present |-> TRUE, data |-> cache[key].data,
                                     timestamp |-> cache[key].timestamp]
                               ELSE NoEntry,
                     !.foundAge = IF key \in DOMAIN cache
                                  THEN now - cache[key].timestamp ELSE 0]
    IN  IF cached # Null /\ IsCacheable(r.name)
        THEN [looked EXCEPT !.pc = "Done",
                !.response = Success(Str("[CACHED] " \o ToText(cached)), TRUE)]
        ELSE Dispatch(looked)

\* getCachedResponse(cacheKey) and the test that serves a cached response
Lookup(r) ==
    LET key == CacheKey(r.name, r.args)
        cached == getCachedResponse(cache, key, now)
        looked == [r EXCEPT !.key = key, !.lookups = 1,
                     !.found = IF key \in DOMAIN cache
                               THEN [present |-> TRUE, data |-> cache[key].data,
                                     timestamp |-> cache[key].timestamp]
                               ELSE NoEntry,
                     !.foundAge = IF key \in DOMAIN cache
                                  THEN now - cache[key].timestamp ELSE 0]
    IN  IF Truthy(cached) /\ IsCacheable(r.name)
        THEN [looked EXCEPT !.pc = "Done",
                !.response = Success(Str("[CACHED] " \o ToText(cached)), TRUE)]
        ELSE Dispatch(looked)

\* faulty variant: the cache lookup is made before the arguments are validated
Validate_LookupFirst(r) ==
    LET v == validateInput(r.name, r.args)
        looked == Lookup([r EXCEPT !.validations = 1])
    IN  IF looked.pc = "Done" THEN looked
        ELSE IF v.kind # "ok"
        THEN Throw([r EXCEPT !.validations = 1, !.key = looked.key,
                             !.lookups = 1, !.found = looked.found,
                             !.foundAge = looked.foundAge], v)
        ELSE looked

\* faulty variant: the arguments are not validated
Validate_NoCheck(r) == Lookup([r EXCEPT !.validations = 1])

\* validateInput(name, args) is the first statement of the try block
Validate(r) ==
    LET v == validateInput(r.name, r.args)
        validated == [r EXCEPT !.validations = 1]
    IN  IF v.kind # "ok" THEN Throw(validated, v) ELSE Lookup(validated)

\* faulty variant: a lookup that finds an expired entry deletes it
Receive_EvictsStale(i, call) ==
    /\ inv[i].pc = "Idle"
    /\ \A j \in Slots : j < i => inv[j].pc # "Idle"
    /\ inv' = [inv EXCEPT ![i] =
                 Validate([IdleInv EXCEPT !.name = call.name, !.args = call.args])]
    /\ cache' = [k \in {x \in DOMAIN cache :
                          ~(x = inv'[i].key /\ now - cache[x].timestamp >= CACHE_TTL)}
                  |-> cache[k]]
    /\ UNCHANGED <<now, openai, ticks, scrape>>

\* faulty variant: a request is taken up only when no other is in flight
Receive_Blocking(i, call) ==
    /\ inv[i].pc = "Idle"
    /\ \A j \in Slots : j < i => inv[j].pc \notin {"Idle", "Executing", "Backoff"}
    /\ inv' = [inv EXCEPT ![i] =
                 Validate([IdleInv EXCEPT !.name = call.name, !.args = call.args])]
    /\ UNCHANGED <<cache, now, openai, ticks, scrape>>

\* a tools/call request arrives and runs up to its first suspension
Receive(i, call) ==
    /\ inv[i].pc = "Idle"
    /\ \A j \in Slots : j < i => inv[j].pc # "Idle"
    /\ inv' = [inv EXCEPT ![i] =
                 Validate([IdleInv EXCEPT !.name = call.name, !.args = call.args])]
    /\ UNCHANGED <<cache, now, openai, ticks, scrape>>

\* faulty variant: the response is returned without the result being stored
AttemptSucceeds_NoStore(i, result) ==
    /\ inv[i].pc = "Executing"
    /\ result \in Results(inv[i].name)
    /\ inv' = [inv EXCEPT ![i].pc = "Done", ![i].result = result,
                 ![i].response = Success(result, FALSE),
                 ![i].lastErr = NoError]
    /\ UNCHANGED <<cache, now, openai, ticks, scrape>>

\* The operation of attempt inv[i].attempt resolves: withRetry and the tool
\* handler return, the result is stored if the tool is cacheable, and the
\* response is returned.  The second Date.now() of setCachedResponse is read
\* only when the sweep runs; it may be one millisecond later than the first.
AttemptSucceeds(i, result) ==
    /\ inv[i].pc = "Executing"
    /\ result \in Results(inv[i].name)
    /\ IF IsCacheable(inv[i].name)
       THEN \E t2 \in (IF Cardinality(DOMAIN cache \cup {inv[i].key}) > CACHE_MAX_SIZE
                       THEN {now, now + 1} ELSE {now}) :
              /\ cache' = setCachedResponse(cache, inv[i].key, result, now, t2)
              /\ now' = t2
              /\ inv' = [inv EXCEPT ![i].pc = "Done", ![i].result = result,
                           ![i].response = Success(result, FALSE),
                           ![i].stores = @ + 1, ![i].lastErr = NoError,
                           ![i].writes = @ + (IF cache' # cache THEN 1 ELSE 0)]
       ELSE /\ inv' = [inv EXCEPT ![i].pc = "Done", ![i].result = result,
                         ![i].response = Success(result, FALSE),
                         ![i].lastErr = NoError]
            /\ UNCHANGED <<cache, now>>
    /\ UNCHANGED <<openai, ticks, scrape>>

\* faulty variant: the error that ends the invocation is stored as its result
AttemptFails_CachesError(i, error) ==
    /\ inv[i].pc = "Executing"
    /\ error \in OpErrors
    /\ LET r == [inv[i] EXCEPT !.lastErr = error]
           ends == IsLastAttempt(r.attempt) \/ NonRetryable(error)
       IN  /\ inv' = [inv EXCEPT ![i] =
                    IF ends
                    THEN Throw(r, JsError(error.message))
                    ELSE [r EXCEPT !.pc = "Backoff", !.failedAt = now,
                                   !.waits = Append(@, BackoffDelay(r.attempt)),
                                   !.wakeAt = now + BackoffDelay(r.attempt)]]
           /\ cache' = IF ends /\ IsCacheable(r.name)
                       THEN setCachedResponse(cache, r.key, Str(error.message), now, now)
                       ELSE cache
    /\ UNCHANGED <<now, openai, ticks, scrape>>

\* faulty variant: the error that ends the retries is turned into a result
AttemptFails_Swallowed(i, error) ==
    /\ inv[i].pc = "Executing"
    /\ error \in OpErrors
    /\ LET r == [inv[i] EXCEPT !.lastErr = error]
       IN  inv' = [inv EXCEPT ![i] =
                IF IsLastAttempt(r.attempt) \/ NonRetryable(error)
                THEN [r EXCEPT !.pc = "Done",
                               !.response = Success(Str("Error: " \o error.message), FALSE)]
                ELSE [r EXCEPT !.pc = "Backoff", !.failedAt = now,
                               !.waits = Append(@, BackoffDelay(r.attempt)),
                               !.wakeAt = now + BackoffDelay(r.attempt)]]
    /\ UNCHANGED <<cache, now, openai, ticks, scrape>>

\* The operation of attempt inv[i].attempt rejects: the catch of withRetry.
AttemptFails(i, error) ==
    /\ inv[i].pc = "Executing"
    /\ error \in OpErrors
    /\ LET r == [inv[i] EXCEPT !.lastErr = error]
       IN  inv' = [inv EXCEPT ![i] =
                IF IsLastAttempt(r.attempt) \/ NonRetryable(error)
                THEN Throw(r, JsError(error.message))
                ELSE [r EXCEPT !.pc = "Backoff", !.failedAt = now,
                               !.waits = Append(@, BackoffDelay(r.attempt)),
                               !.wakeAt = now + BackoffDelay(r.attempt)]]
    /\ UNCHANGED <<cache, now, openai, ticks, scrape>>

\* faulty variant: the promise of the backoff is never resolved
BackoffElapsed_NeverResolved(i) ==
    /\ inv[i].pc = "Backoff"
    /\ FALSE
    /\ UNCHANGED vars

\* The setTimeout of the backoff fires: the loop goes to its next iteration
\* and calls the operation again.
BackoffElapsed(i) ==
    /\ inv[i].pc = "Backoff"
    /\ now >= inv[i].wakeAt
    /\ inv' = [inv EXCEPT ![i].pc = "Executing", ![i].attempt = @ + 1,
                 ![i].opCalls = @ + 1, ![i].wakeAt = 0, ![i].failedAt = 0,
                 ![i].wokeEarly = @ \/ (now - inv[i].failedAt < BackoffDelay(inv[i].attempt))]
    /\ UNCHANGED <<cache, now, openai, ticks, scrape>>

(********************************* the clock *******************************)
\* the clock moves by about one TTL, or to the next timer
TickSteps == {CACHE_TTL - 1, CACHE_TTL, CACHE_TTL + 1}

Tick(d) ==
    /\ ticks < MaxTicks
    /\ d \in TickSteps
    /\ now' = now + d
    /\ ticks' = ticks + 1
    /\ UNCHANGED <<cache, openai, inv, scrape>>

\* time passes until the next pending backoff timer is due
WaitForTimer ==
    /\ \E i \in Slots : inv[i].pc = "Backoff" /\ inv[i].wakeAt > now
    /\ now' = CHOOSE t \in {inv[i].wakeAt : i \in {j \in Slots : inv[j].pc = "Backoff" /\ inv[j].wakeAt > now}} :
                \A i \in Slots : (inv[i].pc = "Backoff" /\ inv[i].wakeAt > now) => t <= inv[i].wakeAt
    /\ UNCHANGED <<cache, openai, inv, ticks, scrape>>

Next ==
    \/ \E i \in Slots, call \in Calls : Receive(i, call)
    \/ \E i \in Slots : \E result \in Results(inv[i].name) : AttemptSucceeds(i, result)
    \/ \E i \in Slots, error \in OpErrors : AttemptFails(i, error)
    \/ \E i \in Slots : BackoffElapsed(i)
    \/ \E d \in TickSteps : Tick(d)
    \/ WaitForTimer

Spec == Init /\ [][Next]_vars

(******************************** the claims *******************************)
\* The calls of Calls that break a rule of their schema, each with the
\* message the rule is documented to give.
InvalidCalls ==
    { [call |-> Call("ask_athena", Obj(<<>>)),
       message |-> "Missing required field: prompt"],
      [call |-> Call("ask_athena", Obj(<< <<"prompt", Str("")>> >>)),
       message |-> "Field prompt must be at least 1 characters"],
      [call |-> Call("analyze_code", Obj(<< <<"code", Str("x")>>, <<"analysis_type", Str("lint")>> >>)),
       message |-> "Field analysis_type must be one of: review, explain, optimize, debug"],
      [call |-> Call("image_generate", Obj(<< <<"prompt", Str("cat")>>, <<"n", Num(5)>> >>)),
       message |-> "Field n must be at most 4"],
      [call |-> Call("web_request", Obj(<< <<"url", Num(7)>> >>)),
       message |-> "Field url must be a string"] }

IsInvalid(r) == \E e \in InvalidCalls : r.name = e.call.name /\ r.args = e.call.args

Received(i) == inv[i].pc # "Idle"

\* C1: an invocation whose arguments fail schema validation ends with an
\* InvalidParams error carrying the validator's message; it runs no tool
\* handler, no operation and no retry, performs no cache lookup and no store,
\* and leaves the cache unchanged.
C1_InvalidArgsStopAtValidation ==
    \A i \in Slots : \A e \in InvalidCalls :
        (Received(i) /\ inv[i].name = e.call.name /\ inv[i].args = e.call.args)
        => /\ inv[i].pc = "DoneError"
           /\ inv[i].response = Failure("InvalidParams", e.message)
           /\ inv[i].handlerCalls = 0
           /\ inv[i].retryCalls = 0
           /\ inv[i].opCalls = 0
           /\ inv[i].lookups = 0
           /\ inv[i].stores = 0
           /\ inv[i].writes = 0

\* an invalid call received while the cache holds a fresh entry
C1_Witness ==
    \E i \in Slots :
        /\ Received(i) /\ IsInvalid(inv[i])
        /\ inv[i].name = "ask_athena"
        /\ \E k \in DOMAIN cache : now - cache[k].timestamp < CACHE_TTL

\* C2: two sequential invocations of a cacheable tool with identical
\* arguments, the second looking up less than TTL after the first stored its
\* result, execute the handler once in total, and the second response is
\* "[CACHED] " followed by the text of the first response.
C2_CacheIdempotence ==
    \A i \in Slots : \A j \in Slots :
        ( /\ i < j
          /\ inv[i].pc = "Done" /\ inv[i].stores = 1
          /\ inv[i].name \in {"get_system_stats", "ask_athena"}
          /\ Received(j) /\ inv[j].name = inv[i].name /\ inv[j].args = inv[i].args
          /\ inv[j].found.present /\ inv[j].found.data = inv[i].result
          /\ inv[j].foundAge < CACHE_TTL )
        => /\ inv[i].handlerCalls + inv[j].handlerCalls = 1
           /\ inv[j].response =
                Success(Str("[CACHED] " \o ToText(inv[i].response.text)), TRUE)

\* C3: a response is served from the cache only from an entry that exists
\* and whose age is below the TTL, and it is the marker followed by the
\* entry's data; a call of a cacheable tool that finds an entry of age >= TTL
\* for its key is not served from it and dispatches to the handler again.
C3_CacheExpiry ==
    \A i \in Slots :
        /\ inv[i].response.cached
           => /\ inv[i].found.present
              /\ inv[i].foundAge < 300000
              /\ inv[i].response.text = Str("[CACHED] " \o ToText(inv[i].found.data))
              /\ inv[i].handlerCalls = 0
        /\ (Received(i) /\ inv[i].lookups = 1 /\ inv[i].found.present
              /\ inv[i].foundAge >= 300000)
           => /\ ~inv[i].response.cached
              /\ inv[i].handlerCalls = 1

\* a repeat call made exactly TTL after the store is executing its handler
C3_Witness ==
    \E i \in Slots :
        /\ inv[i].pc = "Executing"
        /\ inv[i].found.present /\ Truthy(inv[i].found.data)
        /\ inv[i].foundAge = CACHE_TTL

\* C4: an invocation whose operation failed on every attempt with a
\* retryable error has called the operation exactly 3 times, waited 1000 and
\* 2000 ms, and ends as InternalError carrying the last error's message;
\* nothing is returned as a success.
C4_RetryExhaustion ==
    \A i \in Slots :
        (inv[i].pc = "DoneError" /\ inv[i].opCalls >= 1 /\ inv[i].lastErr = Http500)
        => /\ inv[i].opCalls = 3
           /\ inv[i].retryCalls = 1
           /\ inv[i].waits = <<1000, 2000>>
           /\ inv[i].response =
                Failure("InternalError", "Tool execution failed: " \o inv[i].lastErr.message)
           /\ inv[i].result = Null

C4_Witness ==
    \E i \in Slots :
        inv[i].pc = "DoneError" /\ inv[i].opCalls = 3 /\ inv[i].lastErr = Http500

\* C5: once an attempt has failed with ENOTFOUND, 401 or 403, whatever its
\* index, the invocation has ended with that error: the operation is not
\* called again and no backoff wait follows the failure (the waits are those
\* of the earlier failures only).
C5_NonRetryableShortCircuit ==
    \A i \in Slots :
        (Received(i) /\ inv[i].lastErr \in {ENotFound, Http401, Http403})
        => /\ inv[i].pc = "DoneError"
           /\ inv[i].response =
                Failure("InternalError", "Tool execution failed: " \o inv[i].lastErr.message)
           /\ Len(inv[i].waits) = inv[i].opCalls - 1
           /\ inv[i].wakeAt = 0
           /\ inv[i].opCalls \in 1..3

\* a 403 on the second attempt, after one retryable failure
C5_Witness ==
    \E i \in Slots : \E j \in Slots :
        /\ inv[i].lastErr = Http403 /\ inv[i].opCalls = 2 /\ inv[i].pc = "DoneError"
        /\ inv[j].lastErr = ENotFound /\ inv[j].opCalls = 1 /\ inv[j].pc = "DoneError"

\* C6: the wait before attempt i+1 is 1000 * 2^i ms and no attempt starts
\* before its wait has elapsed; an operation that succeeds on attempt k has
\* been called k+1 times after k waits, its result is the response, and no
\* attempt or wait follows the success.
C6_RetrySuccessPath ==
    \A i \in Slots :
        /\ ~inv[i].wokeEarly
        /\ inv[i].pc = "Backoff"
           => /\ inv[i].wakeAt = inv[i].failedAt + inv[i].waits[Len(inv[i].waits)]
              /\ Len(inv[i].waits) = inv[i].attempt + 1
        /\ \A k \in 1..Len(inv[i].waits) :
              inv[i].waits[k] = (IF k = 1 THEN 1000 ELSE IF k = 2 THEN 2000 ELSE 4000)
        /\ (inv[i].pc = "Done" /\ ~inv[i].response.cached)
           => /\ inv[i].opCalls = Len(inv[i].waits) + 1
              /\ inv[i].opCalls <= 3
              /\ inv[i].response = Success(inv[i].result, FALSE)
              /\ inv[i].wakeAt = 0

\* two retryable failures, then a success on the third attempt
C6_Witness ==
    \E i \in Slots :
        /\ inv[i].pc = "Done" /\ inv[i].opCalls = 3
        /\ inv[i].waits = <<1000, 2000>>
        /\ inv[i].response = Success(Str("answer one"), FALSE)

\* C7: an invocation that ends in an error has stored nothing and has not
\* changed the cache, and every entry of the cache is the result of an
\* execution that succeeded.
C7_FailuresNeverCached ==
    /\ \A i \in Slots :
          inv[i].pc = "DoneError" => inv[i].stores = 0 /\ inv[i].writes = 0
    /\ \A k \in DOMAIN cache :
          \E i \in Slots :
              /\ inv[i].pc = "Done" /\ inv[i].stores = 1 /\ inv[i].key = k
              /\ inv[i].response = Success(cache[k].data, FALSE)

\* a handler failure after retries for a key the cache holds an entry for
C7_Witness ==
    \E i \in Slots :
        /\ inv[i].pc = "DoneError" /\ inv[i].opCalls = 3
        /\ inv[i].key \in DOMAIN cache

\* C8: every cache key is the key of a call of get_system_stats or
\* ask_athena; an invocation of any other tool stores nothing, is never
\* answered from the cache, and reaches its handler once validation passed.
C8_OnlyAllowListedToolsCached ==
    /\ \A k \in DOMAIN cache :
          \E c \in Calls :
              c.name \in {"get_system_stats", "ask_athena"} /\ k = CacheKey(c.name, c.args)
    /\ \A i \in Slots :
          (Received(i) /\ inv[i].name \in {"analyze_code", "generate_code",
                                            "image_generate", "web_request"})
          => /\ inv[i].stores = 0 /\ inv[i].writes = 0
             /\ ~inv[i].response.cached
             /\ ~IsInvalid(inv[i]) => inv[i].handlerCalls = 1

\* a web_request and a generate_code call have returned their fresh results
C8_Witness ==
    \E i \in Slots : \E j \in Slots :
        /\ inv[i].name = "web_request" /\ inv[i].pc = "Done"
        /\ inv[j].name = "generate_code" /\ inv[j].pc = "Done"

InFlight(i) == inv[i].pc \in {"Executing", "Backoff"}

\* the step is the store of invocation i
StoreStep(i) ==
    /\ inv[i].pc = "Executing"
    /\ inv'[i].stores = inv[i].stores + 1

\* C11: the pipeline has no mutual exclusion between the lookup of one
\* invocation and the store of another: an invocation of a cacheable tool
\* that is received while another invocation with the same cache key is
\* suspended in its operation or its backoff, and while the cache holds no
\* fresh entry for the key, misses the cache and starts the operation itself,
\* so that both invocations execute the handler.
C11_ConcurrentMissesBothExecute ==
    [][ \A i, j \in Slots :
          ( /\ i # j
            /\ InFlight(i)
            /\ inv[j].pc = "Idle" /\ inv'[j].pc # "Idle"
            /\ IsCacheable(inv'[j].name)
            /\ inv'[j].key = inv[i].key
            /\ (~inv'[j].found.present \/ inv'[j].foundAge >= CACHE_TTL) )
          => /\ inv'[j].pc = "Executing"
             /\ inv'[j].handlerCalls = 1
             /\ inv'[j].opCalls = 1
             /\ ~inv'[j].response.cached
             /\ inv'[i] = inv[i] ]_vars

\* two invocations of ask_athena with the same arguments have both missed
\* the cache and both have their operation under way
C11_Witness ==
    \E i, j \in Slots :
        /\ i # j
        /\ InFlight(i) /\ InFlight(j)
        /\ inv[i].name = "ask_athena"
        /\ inv[i].key = inv[j].key
        /\ inv[i].args = inv[j].args
        /\ ~inv[i].found.present /\ ~inv[j].found.present
        /\ inv[i].opCalls >= 1 /\ inv[j].opCalls >= 1

(****************************** step ordering ******************************)
\* the lookup of invocation i found an entry that getCachedResponse serves
ServedFromCache(i) ==
    /\ inv[i].found.present
    /\ inv[i].foundAge < CACHE_TTL
    /\ Truthy(inv[i].found.data)

\* C12: within one invocation the steps occur in the order validate, cache
\* lookup, handler execution (with retry), cache store, response: a lookup is
\* made only after validation has passed; the handler is started only after
\* the lookup, and for a cacheable tool only when the lookup has missed; the
\* operation runs only inside the handler's retry executor; a store is made
\* at most once, only by a cacheable invocation whose operation succeeded,
\* and it is made before the response of a fresh success is returned; no
\* response exists while the operation or a backoff is pending.
C12_StepOrdering ==
    \A i \in Slots :
        /\ inv[i].lookups = 1
            => inv[i].validations = 1 /\ inv[i].response.code # "InvalidParams"
        /\ inv[i].handlerCalls = 1
            => /\ inv[i].lookups = 1
               /\ ~inv[i].response.cached
               /\ IsCacheable(inv[i].name) => ~ServedFromCache(i)
        /\ inv[i].response.cached
            => inv[i].lookups = 1 /\ inv[i].handlerCalls = 0 /\ inv[i].stores = 0
        /\ inv[i].opCalls >= 1
            => inv[i].handlerCalls = 1 /\ inv[i].retryCalls = 1
        /\ inv[i].stores \in {0, 1}
        /\ inv[i].stores = 1
            => /\ IsCacheable(inv[i].name)
               /\ inv[i].opCalls >= 1
               /\ inv[i].lastErr = NoError
               /\ inv[i].pc = "Done"
               /\ inv[i].response = Success(inv[i].result, FALSE)
        /\ (inv[i].response.kind = "ok" /\ ~inv[i].response.cached /\ IsCacheable(inv[i].name))
            => inv[i].stores = 1
        /\ InFlight(i) => inv[i].response = NoResponse /\ inv[i].stores = 0
        /\ inv[i].response # NoResponse => inv[i].pc \in {"Done", "DoneError"}

\* a cacheable invocation went through every step: validated, missed the
\* cache, ran its operation twice and stored the result before responding
C12_Witness ==
    \E i \in Slots :
        /\ inv[i].pc = "Done"
        /\ IsCacheable(inv[i].name)
        /\ inv[i].validations = 1 /\ inv[i].lookups = 1
        /\ inv[i].handlerCalls = 1 /\ inv[i].opCalls = 2
        /\ inv[i].stores = 1
        /\ inv[i].key \in DOMAIN cache

(******************************* termination *******************************)
\* the awaited operation of invocation i settles, one way or the other
Settle(i) ==
    \/ \E result \in Results(inv[i].name) : AttemptSucceeds(i, result)
    \/ \E error \in OpErrors : AttemptFails(i, error)

\* Every awaited operation settles and every backoff timer fires: the
\* promise of operation() is resolved or rejected, the clock reaches the
\* time of each pending setTimeout, and the event loop runs its callback.
Fairness ==
    /\ \A i \in Slots : WF_vars(Settle(i))
    /\ \A i \in Slots : WF_vars(BackoffElapsed(i))
    /\ WF_vars(WaitForTimer)

SpecFair == Init /\ [][Next]_vars /\ Fairness

Terminal(i) ==
    \/ inv[i].pc = "Done" /\ inv[i].response.kind = "ok"
    \/ /\ inv[i].pc = "DoneError"
       /\ inv[i].response.kind = "error"
       /\ inv[i].response.code \in {"InvalidParams", "MethodNotFound", "InternalError"}

\* C13: provided every attempt of the operation eventually succeeds or fails
\* and every backoff timer eventually fires, every invocation that has been
\* received eventually reaches a terminal state, Done with a success
\* response or Done(error) with an InvalidParams, MethodNotFound or
\* InternalError response, and it then stays in that one state for good; no
\* invocation stays in Executing or in Backoff forever.
C13_Termination ==
    /\ \A i \in Slots : Received(i) ~> Terminal(i)
    /\ [][\A i \in Slots : Terminal(i) => inv'[i] = inv[i]]_vars

\* an invocation ended in error after it had gone through two backoffs
C13_Witness ==
    \E i \in Slots :
        /\ Terminal(i)
        /\ inv[i].pc = "DoneError"
        /\ inv[i].opCalls = MAX_RETRIES
        /\ Len(inv[i].waits) = MAX_RETRIES - 1

(***************************** execution errors ****************************)
\* C14: every failure of the operation that leaves the retry executor, after
\* the last attempt or on a non-retryable error, reaches the caller as an
\* InternalError whose message is "Tool execution failed: " followed by the
\* message of that error, and nothing is stored for it; a success response
\* is given only for a cached value or for the value the operation resolved
\* to, never for an execution that failed.
C14_ErrorsNeverSwallowed ==
    \A i \in Slots :
        /\ (inv[i].lastErr # NoError /\ ~InFlight(i))
            => /\ inv[i].pc = "DoneError"
               /\ inv[i].opCalls = MAX_RETRIES \/ NonRetryable(inv[i].lastErr)
               /\ inv[i].response.kind = "error"
               /\ inv[i].response.code = "InternalError"
               /\ inv[i].response.text =
                      Str("Tool execution failed: " \o inv[i].lastErr.message)
               /\ inv[i].stores = 0
        /\ inv[i].response.kind = "ok"
            => /\ inv[i].lastErr = NoError
               /\ \/ inv[i].response.cached
                  \/ /\ inv[i].result \in Results(inv[i].name)
                     /\ inv[i].response.text = inv[i].result

\* one invocation failed on a non-retryable error at its first attempt and
\* another after its attempts were used up on a retryable one
C14_Witness ==
    \E i, j \in Slots :
        /\ inv[i].pc = "DoneError" /\ inv[i].lastErr = Http401 /\ inv[i].opCalls = 1
        /\ inv[j].pc = "DoneError" /\ inv[j].lastErr = ENotFound
        /\ inv[j].opCalls = MAX_RETRIES

(************************** independent invocations ************************)
\* C23: while an invocation is suspended in its operation or in a backoff
\* wait, another invocation can be received and can take each of its own
\* steps: its operation can settle and its due timer can fire; a step of one
\* invocation leaves the other's record, attempt counter included,
\* untouched, and every invocation counts its own attempts from 0.
C23_NonBlockingBackoff ==
    /\ [](\A i, j \in Slots :
            (i # j /\ InFlight(i)) =>
              /\ (inv[j].pc = "Idle" /\ \A m \in Slots : m < j => inv[m].pc # "Idle")
                  => ENABLED (\E call \in Calls : Receive(j, call))
              /\ inv[j].pc = "Executing" => ENABLED Settle(j)
              /\ (inv[j].pc = "Backoff" /\ now >= inv[j].wakeAt)
                  => ENABLED BackoffElapsed(j)
              /\ InFlight(j) => inv[j].attempt = inv[j].opCalls - 1)
    /\ [][\A i, j \in Slots :
            (i # j /\ inv'[j] # inv[j]) => inv'[i] = inv[i]]_vars

\* the first invocation is waiting for its backoff timer, which is not due
\* yet, and the second, received after it, has completed with a result
C23_Witness ==
    /\ inv[1].pc = "Backoff"
    /\ now < inv[1].wakeAt
    /\ inv[2].pc = "Done"
    /\ inv[2].opCalls = 1
    /\ ~inv[2].response.cached

(************************* overwrite on re-execution ***********************)
\* C24: every successful execution of a cacheable tool replaces the entry of
\* its key with its own result and the time of its store, and leaves the
\* other entries as they are, so that the entry of a key always holds the
\* result of the store made last; a response served from the cache is the
\* marker "[CACHED] " followed by the data the entry holds at the lookup.
C24_OverwriteOnReexecution ==
    [][ \A i \in Slots :
          /\ (StoreStep(i) /\ IsCacheable(inv[i].name))
              => /\ inv[i].key \in DOMAIN cache'
                 /\ cache'[inv[i].key] = [data |-> inv'[i].result, timestamp |-> now]
                 /\ inv'[i].response.text = inv'[i].result
                 /\ \A k \in DOMAIN cache : k # inv[i].key =>
                        (k \in DOMAIN cache' /\ cache'[k] = cache[k])
          /\ (inv[i].pc = "Idle" /\ inv'[i].response.cached)
              => /\ inv'[i].key \in DOMAIN cache
                 /\ inv'[i].response.text =
                       Str("[CACHED] " \o ToText(cache[inv'[i].key].data)) ]_vars

\* two invocations with the same key both executed; the one that stored
\* last gave a different result, and the entry holds that result
C24_Witness ==
    \E i, j \in Slots :
        /\ i # j
        /\ inv[i].key = inv[j].key
        /\ inv[i].stores = 1 /\ inv[j].stores = 1
        /\ inv[i].result = Str("answer one")
        /\ inv[j].result = Str("answer two")
        /\ inv[j].found.present
        /\ inv[j].key \in DOMAIN cache
        /\ cache[inv[j].key].data = Str("answer two")

(******************************* error wrapping ****************************)
\* C25: an McpError raised during an invocation reaches the caller with its
\* own code and message: InvalidParams from validation, MethodNotFound for
\* an unknown tool, and the InternalError "OpenAI client not initialized.
\* Please check your API key." of a handler's pre-check, which is raised
\* before withRetry is entered and is therefore never retried; any other
\* error, the operation's or a TypeError, becomes one InternalError whose
\* message is "Tool execution failed: " followed by the original message.
C25_ErrorWrapping ==
    \A i \in Slots :
        /\ \A e \in InvalidCalls :
              (Received(i) /\ inv[i].name = e.call.name /\ inv[i].args = e.call.args)
              => inv[i].response = Failure("InvalidParams", e.message)
        /\ (Received(i) /\ inv[i].name \notin KnownTools)
              => inv[i].response =
                   Failure("MethodNotFound", "Unknown tool: " \o inv[i].name)
        /\ (Received(i) /\ inv[i].name \in OpenAITools /\ ~openai
               /\ inv[i].args.present /\ ~IsInvalid(inv[i]))
              => /\ inv[i].pc = "DoneError"
                 /\ inv[i].response =
                      Failure("InternalError",
                              "OpenAI client not initialized. Please check your API key.")
                 /\ inv[i].retryCalls = 0
                 /\ inv[i].opCalls = 0
                 /\ inv[i].waits = <<>>
        /\ (inv[i].pc = "DoneError" /\ inv[i].lastErr # NoError)
              => inv[i].response =
                   Failure("InternalError",
                           "Tool execution failed: " \o inv[i].lastErr.message)
        /\ (Received(i) /\ ~inv[i].args.present /\ inv[i].name = "ask_athena")
              => inv[i].response =
                   Failure("InternalError",
                           "Tool execution failed: Cannot read properties of undefined (reading 'prompt')")
        /\ inv[i].response.kind = "error"
              => inv[i].response.code \in {"InvalidParams", "MethodNotFound", "InternalError"}

\* without an OpenAI client, one invocation ended on the handler's pre-check
\* and another on the McpError of an unknown tool
C25_Witness ==
    \E i, j \in Slots :
        /\ ~openai
        /\ inv[i].name = "ask_athena"
        /\ inv[i].handlerCalls = 1
        /\ inv[i].response.text =
              Str("OpenAI client not initialized. Please check your API key.")
        /\ inv[j].response.code = "MethodNotFound"

(***************************** bounded retry effort ************************)
RECURSIVE Sum(_)
\* the total of a sequence of delays
Sum(seq) == IF Len(seq) = 0 THEN 0 ELSE Head(seq) + Sum(Tail(seq))

\* C27: with the default policy an invocation makes at most 3 attempts of
\* its operation and at most 2 backoff waits, of 1000 ms and then 2000 ms,
\* 3000 ms in all; a wait stands only between two attempts, so none follows
\* the final attempt, a non-retryable failure or a success.
C27_BoundedRetryEffort ==
    \A i \in Slots :
        /\ inv[i].opCalls <= 3
        /\ Len(inv[i].waits) <= 2
        /\ inv[i].waits \in {<<>>, <<1000>>, <<1000, 2000>>}
        /\ Sum(inv[i].waits) <= 3000
        /\ inv[i].pc \in {"Executing", "Done", "DoneError"}
              => Len(inv[i].waits) = (IF inv[i].opCalls = 0 THEN 0 ELSE inv[i].opCalls - 1)
        /\ inv[i].pc = "Backoff"
              => /\ Len(inv[i].waits) = inv[i].opCalls
                 /\ inv[i].opCalls <= 2
                 /\ inv[i].lastErr # NoError
                 /\ inv[i].lastErr.code # "ENOTFOUND"
                 /\ inv[i].lastErr.status \notin {401, 403}

\* an invocation succeeded at its third attempt after waiting 3000 ms in all
C27_Witness ==
    \E i \in Slots :
        /\ inv[i].pc = "Done"
        /\ inv[i].opCalls = 3
        /\ inv[i].waits = <<1000, 2000>>
        /\ Sum(inv[i].waits) = 3000

(******************************* falsy payloads ****************************)
\* C29: an empty string or null returned by the handler of a cacheable tool
\* is stored, but the later lookup of that fresh entry counts as a miss: the
\* invocation runs the handler again and is not answered from the cache; a
\* cache-served response always carries a non-empty payload after the
\* marker, so no response is the bare "[CACHED] ".
C29_FalsyPayloadsNeverServed ==
    \A i \in Slots :
        /\ ( /\ inv[i].lookups = 1
              /\ IsCacheable(inv[i].name)
              /\ inv[i].found.present
              /\ inv[i].foundAge < CACHE_TTL
              /\ inv[i].found.data \in {Str(""), Null} )
            => /\ ~inv[i].response.cached
               /\ inv[i].handlerCalls = 1
               /\ inv[i].opCalls >= 1
        /\ inv[i].response.text # Str("[CACHED] ")
        /\ inv[i].response.cached
            => /\ inv[i].found.data.t = "string"
               /\ inv[i].found.data.s # ""
               /\ inv[i].response.text = Str("[CACHED] " \o inv[i].found.data.s)
        /\ (inv[i].stores = 1 /\ inv[i].result \in {Str(""), Null})
            => /\ inv[i].key \in DOMAIN cache
               /\ inv[i].response = Success(inv[i].result, FALSE)

\* ask_athena returned an empty string, which was stored; the same call made
\* again found the fresh entry and is executing its handler
C29_Witness ==
    \E i, j \in Slots :
        /\ i # j
        /\ inv[i].name = "ask_athena"
        /\ inv[i].stores = 1 /\ inv[i].result = Str("")
        /\ inv[j].key = inv[i].key
        /\ inv[j].found.present
        /\ inv[j].found.data = Str("")
        /\ inv[j].foundAge < CACHE_TTL
        /\ inv[j].opCalls >= 1

(************** one invocation against a cache at its high-water mark ******)
\* the key of the k-th distinct ask_athena question
FillerKey(k) == CacheKey("ask_athena", Obj(<< <<"prompt", Str("q" \o ToString(k))>> >>))

\* n entries stored by earlier ask_athena calls at the times 0, 1 and 2
Prefilled(n) ==
    [key \in {FillerKey(k) : k \in 1..n} |->
        [data |-> Str("answer one"),
         timestamp |-> (CHOOSE k \in 1..n : FillerKey(k) = key) % 3]]

InitSweep ==
    /\ cache \in {Prefilled(CACHE_MAX_SIZE - 1), Prefilled(CACHE_MAX_SIZE)}
    /\ now = 2
    /\ openai \in BOOLEAN
    /\ inv = [i \in Slots |-> IdleInv]
    /\ ticks = 0
    /\ scrape = NoScrape

NextSweep ==
    \/ \E call \in Calls : Receive(1, call)
    \/ \E result \in Results(inv[1].name) : AttemptSucceeds(1, result)
    \/ \E error \in OpErrors : AttemptFails(1, error)
    \/ BackoffElapsed(1)
    \/ \E d \in TickSteps : Tick(d)
    \/ WaitForTimer

SpecSweep == InitSweep /\ [][NextSweep]_vars

\* C10: a store that leaves more than 1000 entries removes every entry whose
\* age is >= TTL, so that right after it only fresh entries (age < TTL)
\* remain and the count is not above the count before the sweep; a store
\* that leaves at most 1000 entries removes none.
C10_SweepLeavesOnlyFresh ==
    [][ cache' # cache =>
          IF Cardinality(DOMAIN cache \cup DOMAIN cache') > 1000
          THEN /\ \A k \in DOMAIN cache' : now' - cache'[k].timestamp < 300000
               /\ Cardinality(DOMAIN cache') <= Cardinality(DOMAIN cache \cup DOMAIN cache')
          ELSE DOMAIN cache \subseteq DOMAIN cache' ]_vars

(*********************** the validator over its inputs *********************)
RECURSIVE Repeat(_, _)
\* the string made of n copies of s
Repeat(s, n) ==
    IF n = 0 THEN ""
    ELSE IF n % 2 = 0 THEN LET h == Repeat(s, n \div 2) IN h \o h
    ELSE s \o Repeat(s, n - 1)

\* the own property `field` of an arguments object, none when undefined
Prop(field, value) == IF value = Undefined THEN <<>> ELSE << <<field, value>> >>

\* values a client may send for a text field limited to `max` characters
TextValues(max) ==
    {Undefined, Null, Num(7), Str(""), Str("c"),
     Str(Repeat("a", max)), Str(Repeat("a", max + 1))}

SizeValues ==
    {Undefined, Null, Num(512), Str("256x256"), Str("512x512"), Str("1024x1024"),
     Str("9x9")}

CountValues == {Undefined, Null, Str("2"), Num(0), Num(1), Num(4), Num(5)}

AnalysisTypeValues ==
    {Undefined, Null, Num(1), Str("review"), Str("explain"), Str("optimize"),
     Str("debug"), Str("lint")}

MethodValues ==
    {Undefined, Null, Num(1), Str("GET"), Str("POST"), Str("PUT"), Str("DELETE"),
     Str("PATCH"), Str("HEAD")}

\* values of a field no schema declares
UndeclaredValues == {Undefined, Null, Num(7)}

\* tool calls that exercise every rule of every schema at its boundaries
ValidationCalls ==
    { Call("image_generate", Obj(Prop("prompt", p) \o Prop("size", z) \o Prop("n", n))) :
        p \in TextValues(1000), z \in SizeValues, n \in CountValues }
    \cup
    { Call("analyze_code", Obj(Prop("code", c) \o Prop("language", l)
                                 \o Prop("analysis_type", a))) :
        c \in {Undefined, Null, Num(7), Str(""), Str("x")},
        l \in {Undefined, Null, Num(3), Str("js")},
        a \in AnalysisTypeValues }
    \cup
    { Call("web_request", Obj(Prop("url", u) \o Prop("method", m) \o Prop("timeout", x))) :
        u \in {Undefined, Null, Num(7), Str("http://a")}, m \in MethodValues,
        x \in UndeclaredValues }
    \cup
    { Call("ask_athena", Obj(Prop("prompt", p) \o Prop("context", x))) :
        p \in TextValues(2000), x \in UndeclaredValues }
    \cup
    { Call(name, args) :
        name \in {"get_system_stats", "generate_code", "no_such_tool"},
        args \in {NoArgs, Obj(<<>>), Obj(Prop("prompt", Null)),
                  Obj(Prop("detailed", Str("yes")) \o Prop("n", Num(99)))} }

NextValidate ==
    \/ \E call \in ValidationCalls : Receive(1, call)
    \/ \E result \in Results(inv[1].name) : AttemptSucceeds(1, result)
    \/ \E error \in OpErrors : AttemptFails(1, error)
    \/ BackoffElapsed(1)
    \/ \E d \in TickSteps : Tick(d)
    \/ WaitForTimer

SpecValidate == Init /\ [][NextValidate]_vars

(************************* the documented rules ****************************)
\* a field counts as absent when its value is undefined or null
Absent(v) == v.t \in {"undefined", "null"}

\* What each documented rule, taken on its own, says of one value, in the
\* documented order: required, string type, number type, minLength,
\* maxLength, min, max, enum.  "" stands for a rule the value passes.
RuleVerdicts(rules, v) ==
    << IF rules.required /\ Absent(v)
       THEN "Missing required field: " \o rules.field ELSE "",
       IF ~Absent(v) /\ rules.type = "string" /\ v.t # "string"
       THEN "Field " \o rules.field \o " must be a string" ELSE "",
       IF ~Absent(v) /\ rules.type = "number" /\ v.t # "number"
       THEN "Field " \o rules.field \o " must be a number" ELSE "",
       IF v.t = "string" /\ rules.minLength # 0 /\ Len(v.s) < rules.minLength
       THEN "Field " \o rules.field \o " must be at least "
               \o ToString(rules.minLength) \o " characters" ELSE "",
       IF v.t = "string" /\ rules.maxLength # 0 /\ Len(v.s) > rules.maxLength
       THEN "Field " \o rules.field \o " must be at most "
               \o ToString(rules.maxLength) \o " characters" ELSE "",
       IF v.t = "number" /\ rules.min # 0 /\ v.n < rules.min
       THEN "Field " \o rules.field \o " must be at least " \o ToString(rules.min)
       ELSE "",
       IF v.t = "number" /\ rules.max # 0 /\ v.n > rules.max
       THEN "Field " \o rules.field \o " must be at most " \o ToString(rules.max)
       ELSE "",
       IF ~Absent(v) /\ Len(rules.enum) # 0
          /\ ~(v.t = "string" /\ \E k \in 1..Len(rules.enum) : rules.enum[k] = v.s)
       THEN "Field " \o rules.field \o " must be one of: " \o Join(rules.enum, ", ")
       ELSE "" >>

\* the messages of the rules the k-th field of the tool's schema breaks
FieldFailures(name, args, k) ==
    LET rules == validationSchemas[name][k]
    IN  SelectSeq(RuleVerdicts(rules, Get(args, rules.field)), LAMBDA m : m # "")

RECURSIVE FailuresFrom(_, _, _)
\* the failures of the fields k, k+1, ... in the schema's field order
FailuresFrom(name, args, k) ==
    IF k > Len(validationSchemas[name]) THEN <<>>
    ELSE FieldFailures(name, args, k) \o FailuresFrom(name, args, k + 1)

\* an optional field of the schema is given as null
NullOptional(name, args, k) ==
    /\ ~validationSchemas[name][k].required
    /\ Get(args, validationSchemas[name][k].field) = Null

\* the k-th field breaks no rule and is not a null optional field
FieldClean(name, args, k) ==
    FieldFailures(name, args, k) = <<>> /\ ~NullOptional(name, args, k)

\* invocation i is of a tool with a schema and carries an arguments object
Checked(i) ==
    /\ Received(i)
    /\ inv[i].name \in DOMAIN validationSchemas
    /\ inv[i].args.present

\* validateInput returned and the handler went on to the cache lookup
ValidationPassed(i) ==
    /\ inv[i].validations = 1
    /\ inv[i].lookups = 1
    /\ inv[i].response.code # "InvalidParams"

\* C15: validation reports exactly one error, the first one: the fields are
\* checked in the schema's field order and the rules of a field in the order
\* required, string type, number type, minLength, maxLength, min, max, enum;
\* of all the rules a call breaks, the first in that order ends the
\* invocation with an InvalidParams error carrying its message alone, and a
\* call without a required field ends with "Missing required field: <field>"
\* for that field; no lookup, handler or operation runs.  (Calls that give
\* null for an optional field are the subject of C20.)
C15_FirstErrorOnly ==
    \A i \in Slots :
        (Checked(i)
         /\ \A k \in 1..Len(validationSchemas[inv[i].name]) :
                ~NullOptional(inv[i].name, inv[i].args, k))
        => LET failures == FailuresFrom(inv[i].name, inv[i].args, 1)
               schema == validationSchemas[inv[i].name]
           IN  /\ failures # <<>>
                   => /\ inv[i].pc = "DoneError"
                      /\ inv[i].response = Failure("InvalidParams", failures[1])
                      /\ inv[i].validations = 1
                      /\ inv[i].lookups = 0
                      /\ inv[i].handlerCalls = 0
                      /\ inv[i].opCalls = 0
               /\ \A k \in 1..Len(schema) :
                     (schema[k].required /\ Absent(Get(inv[i].args, schema[k].field)))
                     => /\ inv[i].response.text =
                              Str("Missing required field: " \o schema[k].field)
                        /\ inv[i].handlerCalls = 0

\* image_generate called with a number for size and 5 for n: the second
\* field breaks two rules and the third one more; the type rule of size is
\* reported
C15_Witness ==
    \E i \in Slots :
        /\ Checked(i)
        /\ inv[i].name = "image_generate"
        /\ Get(inv[i].args, "size") = Num(512)
        /\ Get(inv[i].args, "n") = Num(5)
        /\ Len(FailuresFrom(inv[i].name, inv[i].args, 1)) = 3
        /\ inv[i].response = Failure("InvalidParams", "Field size must be a string")

\* C16: for every number field whose schema sets min or max, a value equal
\* to min and a value equal to max pass validation, a value one below min
\* fails with "Field <field> must be at least <min>" and a value one above
\* max fails with "Field <field> must be at most <max>".
C16_NumericBounds ==
    \A i \in Slots :
        Checked(i) =>
        LET schema == validationSchemas[inv[i].name]
        IN  \A k \in 1..Len(schema) :
            LET rules == schema[k]
                v == Get(inv[i].args, rules.field)
                reached == \A m \in 1..(k - 1) : FieldClean(inv[i].name, inv[i].args, m)
                restClean == \A m \in (k + 1)..Len(schema) :
                                FieldClean(inv[i].name, inv[i].args, m)
            IN  (rules.type = "number" /\ v.t = "number" /\ reached) =>
                /\ (rules.min # 0 /\ v.n = rules.min - 1)
                    => inv[i].response =
                         Failure("InvalidParams", "Field " \o rules.field
                                   \o " must be at least " \o ToString(rules.min))
                /\ (rules.max # 0 /\ v.n = rules.max + 1)
                    => inv[i].response =
                         Failure("InvalidParams", "Field " \o rules.field
                                   \o " must be at most " \o ToString(rules.max))
                /\ (restClean /\ ((rules.min # 0 /\ v.n = rules.min)
                                   \/ (rules.max # 0 /\ v.n = rules.max)))
                    => ValidationPassed(i)

\* image_generate was called with n one below its minimum of 1 and was
\* refused with the documented message
C16_Witness ==
    \E i \in Slots :
        /\ Checked(i)
        /\ inv[i].name = "image_generate"
        /\ Get(inv[i].args, "prompt") = Str("c")
        /\ Get(inv[i].args, "n") = Num(0)
        /\ inv[i].response = Failure("InvalidParams", "Field n must be at least 1")

\* C17: for every string field whose schema sets minLength or maxLength, a
\* string of exactly minLength characters and one of exactly maxLength
\* characters pass validation, a string of minLength - 1 characters fails
\* with "Field <field> must be at least <n> characters" and one of
\* maxLength + 1 characters with "Field <field> must be at most <n>
\* characters".
C17_StringLengthBounds ==
    \A i \in Slots :
        Checked(i) =>
        LET schema == validationSchemas[inv[i].name]
        IN  \A k \in 1..Len(schema) :
            LET rules == schema[k]
                v == Get(inv[i].args, rules.field)
                reached == \A m \in 1..(k - 1) : FieldClean(inv[i].name, inv[i].args, m)
                restClean == \A m \in (k + 1)..Len(schema) :
                                FieldClean(inv[i].name, inv[i].args, m)
            IN  (rules.type = "string" /\ v.t = "string" /\ reached) =>
                /\ (rules.minLength # 0 /\ Len(v.s) = rules.minLength - 1)
                    => inv[i].response =
                         Failure("InvalidParams", "Field " \o rules.field
                                   \o " must be at least " \o ToString(rules.minLength)
                                   \o " characters")
                /\ (rules.maxLength # 0 /\ Len(v.s) = rules.maxLength + 1)
                    => inv[i].response =
                         Failure("InvalidParams", "Field " \o rules.field
                                   \o " must be at most " \o ToString(rules.maxLength)
                                   \o " characters")
                /\ (restClean /\ ((rules.minLength # 0 /\ Len(v.s) = rules.minLength)
                                   \/ (rules.maxLength # 0 /\ Len(v.s) = rules.maxLength)))
                    => ValidationPassed(i)

\* ask_athena was called with a prompt of 2001 characters and was refused
\* with the documented message
C17_Witness ==
    \E i \in Slots :
        /\ Checked(i)
        /\ inv[i].name = "ask_athena"
        /\ Len(Get(inv[i].args, "prompt").s) = 2001
        /\ inv[i].response =
              Failure("InvalidParams", "Field prompt must be at most 2000 characters")

\* the values the enum of a field allows
Members(rules) == {rules.enum[k] : k \in 1..Len(rules.enum)}

\* C18 as stated: for every field with an enum, any present value that is
\* not a member of the set fails with the message that lists all allowed
\* values joined by ", ", and every member passes.
C18_EnumAnyValue ==
    \A i \in Slots :
        Checked(i) =>
        LET schema == validationSchemas[inv[i].name]
        IN  \A k \in 1..Len(schema) :
            LET rules == schema[k]
                v == Get(inv[i].args, rules.field)
                reached == \A m \in 1..(k - 1) : FieldClean(inv[i].name, inv[i].args, m)
                restClean == \A m \in (k + 1)..Len(schema) :
                                FieldClean(inv[i].name, inv[i].args, m)
            IN  (Len(rules.enum) # 0 /\ ~Absent(v) /\ reached) =>
                /\ ~(v.t = "string" /\ v.s \in Members(rules))
                    => inv[i].response =
                         Failure("InvalidParams", "Field " \o rules.field
                                   \o " must be one of: " \o Join(rules.enum, ", "))
                /\ (v.t = "string" /\ v.s \in Members(rules) /\ restClean)
                    => ValidationPassed(i)

\* C18: for every field with an enum (all of them string fields), a present
\* string that is not a member of the set fails with "Field <field> must be
\* one of: " followed by all allowed values joined by ", "; a present value
\* that is not a string fails the string-type rule first, with "Field <field>
\* must be a string"; every member of the set passes.
C18_EnumMembership ==
    \A i \in Slots :
        Checked(i) =>
        LET schema == validationSchemas[inv[i].name]
        IN  \A k \in 1..Len(schema) :
            LET rules == schema[k]
                v == Get(inv[i].args, rules.field)
                reached == \A m \in 1..(k - 1) : FieldClean(inv[i].name, inv[i].args, m)
                restClean == \A m \in (k + 1)..Len(schema) :
                                FieldClean(inv[i].name, inv[i].args, m)
            IN  (Len(rules.enum) # 0 /\ ~Absent(v) /\ reached) =>
                /\ (v.t = "string" /\ v.s \notin Members(rules))
                    => inv[i].response =
                         Failure("InvalidParams", "Field " \o rules.field
                                   \o " must be one of: " \o Join(rules.enum, ", "))
                /\ v.t # "string"
                    => /\ rules.type = "string"
                       /\ inv[i].response =
                            Failure("InvalidParams", "Field " \o rules.field
                                      \o " must be a string")
                /\ (v.t = "string" /\ v.s \in Members(rules) /\ restClean)
                    => ValidationPassed(i)

\* web_request was called with the method HEAD and was refused with the
\* list of the five allowed methods
C18_Witness ==
    \E i \in Slots :
        /\ Checked(i)
        /\ inv[i].name = "web_request"
        /\ Get(inv[i].args, "method") = Str("HEAD")
        /\ inv[i].response =
              Failure("InvalidParams",
                      "Field method must be one of: GET, POST, PUT, DELETE, PATCH")

\* C19: a tool name with no registered schema (get_system_stats,
\* generate_code, an unknown name) passes validation whatever its arguments
\* are, and for a tool with a schema the fields the schema does not declare
\* never make validation fail: a call whose declared fields break no rule
\* passes whatever else it carries.
C19_PermissiveDefault ==
    \A i \in Slots :
        /\ (Received(i) /\ inv[i].name \notin DOMAIN validationSchemas)
            => ValidationPassed(i)
        /\ (Checked(i)
            /\ \A k \in 1..Len(validationSchemas[inv[i].name]) :
                   FieldClean(inv[i].name, inv[i].args, k))
            => ValidationPassed(i)

\* get_system_stats, which has no schema, was called with fields that would
\* break the rules of other tools and passed validation
C19_Witness ==
    \E i \in Slots :
        /\ inv[i].name = "get_system_stats"
        /\ Get(inv[i].args, "n") = Num(99)
        /\ Get(inv[i].args, "detailed") = Str("yes")
        /\ ValidationPassed(i)
        /\ inv[i].handlerCalls = 1

\* C20: a field whose value is undefined or null counts as absent, and the
\* type, length, bound and enum rules apply to a present value only: a call
\* whose non-required field is undefined or null, and whose other fields
\* break no rule, passes validation.
C20_AbsentOptionalPasses ==
    \A i \in Slots :
        Checked(i) =>
        LET schema == validationSchemas[inv[i].name]
        IN  \A k \in 1..Len(schema) :
              ( /\ ~schema[k].required
                /\ Absent(Get(inv[i].args, schema[k].field))
                /\ \A m \in 1..Len(schema) :
                      m # k => FieldClean(inv[i].name, inv[i].args, m) )
              => ValidationPassed(i)

\* C26: right after a store completes, either the cache holds at most 1000
\* entries or every entry it holds has an age of at most the TTL; the entry
\* just stored is still there with the stored result.  The cache is not
\* capped: it holds more than 1000 entries when more than 1000 keys were
\* stored within one TTL.
C26_SizeAfterStore ==
    [][ \A i \in Slots :
          (StoreStep(i) /\ IsCacheable(inv[i].name))
          => /\ \/ Cardinality(DOMAIN cache') <= 1000
                \/ \A k \in DOMAIN cache' : now' - cache'[k].timestamp <= 300000
             /\ inv[i].key \in DOMAIN cache'
             /\ cache'[inv[i].key].data = inv'[i].result ]_vars

\* after the store of a new key the cache holds 1001 entries, all of them
\* younger than the TTL
C26_Witness ==
    \E i \in Slots :
        /\ inv[i].stores = 1
        /\ inv[i].key \in DOMAIN cache
        /\ Cardinality(DOMAIN cache) > CACHE_MAX_SIZE
        /\ \A k \in DOMAIN cache : now - cache[k].timestamp < CACHE_TTL

(************************* the cache key of a call *************************)
\* calls of the cacheable tools, two of them with the same fields and values
\* supplied in a different order
KeyCalls ==
    { Call("ask_athena", Obj(<< <<"prompt", Str("hi")>>, <<"context", Str("c")>> >>)),
      Call("ask_athena", Obj(<< <<"context", Str("c")>>, <<"prompt", Str("hi")>> >>)),
      Call("ask_athena", Obj(<< <<"prompt", Str("hi")>> >>)),
      Call("get_system_stats", Obj(<< <<"detailed", Bool(TRUE)>> >>)) }

NextKey ==
    \/ \E i \in Slots, call \in KeyCalls : Receive(i, call)
    \/ \E i \in Slots : \E result \in Results(inv[i].name) : AttemptSucceeds(i, result)
    \/ \E i \in Slots, error \in OpErrors : AttemptFails(i, error)
    \/ \E i \in Slots : BackoffElapsed(i)
    \/ \E d \in TickSteps : Tick(d)
    \/ WaitForTimer

SpecKey == Init /\ [][NextKey]_vars

\* two argument objects have the same fields with the same values
SameFields(a, b) ==
    /\ a.present /\ b.present
    /\ Len(a.pairs) = Len(b.pairs)
    /\ {a.pairs[k] : k \in 1..Len(a.pairs)} = {b.pairs[k] : k \in 1..Len(b.pairs)}

\* C21: the cache key is a function of the tool name and the arguments only:
\* two invocations of the same tool whose arguments have the same fields
\* with the same values, in whatever order the fields were supplied, compute
\* the same key, whatever the cache holds and whatever was called before.
C21_KeyDeterminism ==
    \A i, j \in Slots :
        ( /\ inv[i].lookups = 1 /\ inv[j].lookups = 1
          /\ inv[i].name = inv[j].name
          /\ SameFields(inv[i].args, inv[j].args) )
        => inv[i].key = inv[j].key

(****************** a full cache that holds the asked question *************)
\* 1000 entries stored at the times 0, 1 and 2, one of them, stored at time
\* 0, under the key of the call ask_athena {prompt: "hi"}
InitFull ==
    /\ cache = CacheSet(Prefilled(CACHE_MAX_SIZE - 1),
                        CacheKey("ask_athena", Obj(<< <<"prompt", Str("hi")>> >>)),
                        Str("answer one"), 0)
    /\ now = 2
    /\ openai \in BOOLEAN
    /\ inv = [i \in Slots |-> IdleInv]
    /\ ticks = 0
    /\ scrape = NoScrape

SpecFull == InitFull /\ [][NextSweep]_vars

\* C22: the cache is changed only by a store, which inserts or overwrites
\* the stored key, and by the sweep inside that store, which deletes entries
\* older than the TTL once the size has passed 1000; the step that receives
\* an invocation and makes its lookup, be it a hit, a miss or a lookup of an
\* expired entry, leaves the cache as it is, so an expired entry stays until
\* a store overwrites it or a sweep deletes it.
C22_CacheMutationPoints ==
    [][ /\ cache' # cache => \E i \in Slots : StoreStep(i) /\ IsCacheable(inv[i].name)
        /\ \A i \in Slots : (inv[i].pc = "Idle" /\ inv'[i].pc # "Idle") => cache' = cache
        /\ \A k \in DOMAIN cache' \ DOMAIN cache :
              \E i \in Slots : StoreStep(i) /\ k = inv[i].key
        /\ \A k \in DOMAIN cache :
              (k \notin DOMAIN cache' \/ cache'[k] # cache[k])
              => \E i \in Slots :
                    /\ StoreStep(i)
                    /\ \/ k = inv[i].key /\ k \in DOMAIN cache'
                       \/ /\ k \notin DOMAIN cache'
                          /\ Cardinality(DOMAIN cache \cup {inv[i].key}) > 1000
                          /\ cache[k].timestamp < now' - 300000 ]_vars

\* an invocation looked up an expired entry and is executing its handler
\* while the expired entry is still in the cache
C22_Witness ==
    \E i \in Slots :
        /\ inv[i].pc = "Executing"
        /\ inv[i].found.present
        /\ inv[i].foundAge >= CACHE_TTL
        /\ inv[i].key \in DOMAIN cache
        /\ cache[inv[i].key].timestamp = inv[i].found.timestamp

(*********************** what may populate the cache ***********************)
\* the arguments of invocation i break no documented rule of its tool
ArgsValid(i) ==
    \/ inv[i].name \notin DOMAIN validationSchemas
    \/ /\ inv[i].args.present
       /\ \A k \in 1..Len(validationSchemas[inv[i].name]) :
             FieldClean(inv[i].name, inv[i].args, k)

\* C28: every cache entry was stored by an invocation whose arguments had
\* passed validateInput for its tool, and an invocation with invalid
\* arguments makes no lookup and is never answered from the cache, whatever
\* the cache holds.
C28_OnlyValidatedCallsPopulate ==
    /\ \A k \in DOMAIN cache :
          \E i \in Slots :
             /\ inv[i].key = k
             /\ inv[i].stores = 1
             /\ inv[i].validations = 1
             /\ ArgsValid(i)
             /\ ~IsInvalid(inv[i])
    /\ \A i \in Slots :
          (Received(i) /\ ~ArgsValid(i))
          => /\ ~inv[i].response.cached
             /\ inv[i].response.kind = "error"
             /\ inv[i].lookups = 0
             /\ inv[i].key \notin DOMAIN cache

\* ask_athena was called with an empty prompt after a valid ask_athena call
\* had stored its answer, and was refused
C28_Witness ==
    \E i, j \in Slots :
        /\ inv[i].name = "ask_athena" /\ inv[i].stores = 1
        /\ inv[i].key \in DOMAIN cache
        /\ inv[j].name = "ask_athena"
        /\ Get(inv[j].args, "prompt") = Str("")
        /\ inv[j].response.code = "InvalidParams"

(*********** scrapePage of src/enhanced-hyperbrowser-scraper.js ************)
\* value || fallback, for numbers
OrDefault(value, fallback) == IF Truthy(value) THEN value.n ELSE fallback

\* value < limit: false when value is undefined (NaN compares false)
LessThan(value, limit) == value.t = "number" /\ value.n < limit

\* options.retryCount and options.maxRetries as a caller may give them
RetryCounts == {Undefined, Num(0), Num(1), Num(3)}
MaxRetriesOptions == {Undefined, Num(0), Num(1), Num(2)}

\* this.config after the constructor and loadConfig
RateLimits == {1000, 250}
RetryAttemptsOptions == {3, 1}

InitScrape ==
    /\ cache = EmptyCache
    /\ now = 0
    /\ openai \in BOOLEAN
    /\ inv = [i \in Slots |-> IdleInv]
    /\ ticks = 0
    /\ \E rl \in RateLimits, ra \in RetryAttemptsOptions :
          scrape = [NoScrape EXCEPT !.rateLimit = rl, !.retryAttempts = ra]

\* scrapePage(url, options) is called and starts its scrape
ScrapePage(retryCount, maxRetries) ==
    /\ scrape.pc = "Idle"
    /\ scrape' = [scrape EXCEPT !.pc = "Scraping", !.retryCount = retryCount,
                     !.maxRetries = maxRetries, !.given = retryCount,
                     !.attempts = 1]
    /\ UNCHANGED <<cache, now, openai, inv, ticks>>

\* the try block runs to its return
ScrapeSucceeds ==
    /\ scrape.pc = "Scraping"
    /\ scrape' = [scrape EXCEPT !.pc = "Done"]
    /\ UNCHANGED <<cache, now, openai, inv, ticks>>

\* a step of the try block throws: the catch block
ScrapeFails ==
    /\ scrape.pc = "Scraping"
    /\ scrape' =
          IF LessThan(scrape.retryCount,
                      OrDefault(scrape.maxRetries, scrape.retryAttempts))
          THEN [scrape EXCEPT !.pc = "Delaying",
                  !.waits = Append(@, scrape.rateLimit * (scrape.retryCount.n + 1))]
          ELSE [scrape EXCEPT !.pc = "Failed"]
    /\ UNCHANGED <<cache, now, openai, inv, ticks>>

\* the delay is over: scrapePage calls itself with retryCount + 1
DelayElapsed ==
    /\ scrape.pc = "Delaying"
    /\ scrape' = [scrape EXCEPT !.pc = "Scraping",
                     !.retryCount = Num(OrDefault(scrape.retryCount, 0) + 1),
                     !.attempts = @ + 1]
    /\ UNCHANGED <<cache, now, openai, inv, ticks>>

NextScrape ==
    \/ \E rc \in RetryCounts, mr \in MaxRetriesOptions : ScrapePage(rc, mr)
    \/ ScrapeSucceeds
    \/ ScrapeFails
    \/ DelayElapsed

SpecScrape == InitScrape /\ [][NextScrape]_vars

\* the number of retries the caller asked for, config.retryAttempts if none
RetryLimit ==
    IF scrape.maxRetries = Undefined THEN scrape.retryAttempts
    ELSE scrape.maxRetries.n

\* C30: scrapePage called without a retryCount retries a failing scrape up
\* to maxRetries times (config.retryAttempts when no maxRetries is given),
\* waiting rateLimit * (retryCount + 1) ms before each retry, and throws the
\* error only when those retries are used up, after 1 + maxRetries attempts.
C30_ScraperRetry ==
    scrape.given = Undefined =>
        /\ scrape.attempts <= 1 + RetryLimit
        /\ scrape.pc = "Failed" =>
              /\ scrape.attempts = 1 + RetryLimit
              /\ scrape.waits = [k \in 1..RetryLimit |-> scrape.rateLimit * k]

====
